---- MODULE Spec2Model ----
(***************************************************************************)
(* The shopping cart of cores/shopping-debug/item.c on top of the          *)
(* intrusive list macros of cores/shopping-release/list.h.                 *)
(*                                                                         *)
(* Memory is modelled at word granularity: mem maps every mapped word      *)
(* address to the value stored there.  A pointer is a word address, NULL is *)
(* address 0, and the address of a field is the address of its object plus *)
(* the field's word offset, exactly as the compiled macros compute it.     *)
(* An access to an address outside DOMAIN mem traps (the process dumps     *)
(* core).  Whether the page at address 0 is mapped is a property of the    *)
(* platform the program was built for, so Init allows both.                *)
(***************************************************************************)
EXTENDS Integers, Sequences, FiniteSets, TLC

VARIABLES
    shopping_cart,  \* item.c:15  the static pointer to the list head
    mem,            \* word address -> stored value
    allocated,      \* the blocks malloc has handed out and free has not taken back
    brk,            \* the number of blocks malloc has carved from the heap so far
    status,         \* "running", "crashed" (trap or abort), "hung" (a scan that never ends)
    last,           \* the call that was made last: [op, id, arg, returned, ret, str, uaf]
    nops,           \* history: the number of calls made
    calls,          \* history: per id, the add_to_cart(id) calls since the last remove_from_cart(id)
    members         \* history of the list-level specification: elements inserted and not removed

vars == <<shopping_cart, mem, allocated, brk, status, last, nops, calls, members>>

----------------------------------------------------------------------------
(* Bounds of the model *)

MaxId     == 3     \* ids are 1..MaxId
MaxBlocks == 3     \* blocks of the heap, each holding one struct item
MaxOps    == 6     \* calls made in one run of the process
MaxCatalogOps == 3 \* cart calls made in a run that also looks up costs and names
IntBits   == 3     \* width of int, so that INT_MAX is reached within MaxOps calls

Ids == 1..MaxId

----------------------------------------------------------------------------
(* Layout: struct item { long id; int count; LIST_ENTRY(item) next; } and  *)
(* struct shopping_head { struct item *lh_first; }, in words.              *)

NULL      == 0
ID        == 0
COUNT     == 1
LE_NEXT   == 2
LE_PREV   == 3
ItemWords == 4
LH_FIRST  == 0

\* what the allocator leaves in the first words of a freed block
Garbage == -1

Blocks   == {ItemWords * k : k \in 1..MaxBlocks}
\* a list head owned by a client of list.h other than the cart
HeadAddr == ItemWords * (MaxBlocks + 1)

PageZero  == 0..(ItemWords - 1)
HeapWords == {b + o : b \in Blocks, o \in 0..(ItemWords - 1)}

MemUnmapped == [a \in HeapWords \cup {HeadAddr} |-> 0]
MemMapped   == [a \in PageZero \cup HeapWords \cup {HeadAddr} |-> 0]

----------------------------------------------------------------------------
(* Memory accesses.  A machine state s is [m |-> memory, res |-> "ok",     *)
(* "trap" or "hang"]; after a trap or a hang nothing more is executed.     *)

Mapped(m, a) == a \in DOMAIN m

\* the machine at the start of a call: memory, how the call goes on, the
\* blocks the call has passed to free, and whether it used one of them since
Start(m) == [m |-> m, res |-> "ok", freed |-> {}, uaf |-> FALSE]

InFreed(s, a) == \E b \in s.freed : a >= b /\ a < b + ItemWords

\* the value a load of address a yields (meaningful only when a is mapped)
Rd(s, a) == IF Mapped(s.m, a) THEN s.m[a] ELSE NULL

\* the effect of a load of address a on the machine: a trap when unmapped
Ck(s, a) ==
    IF s.res # "ok" THEN s
    ELSE IF ~Mapped(s.m, a) THEN [s EXCEPT !.res = "trap"]
    ELSE IF InFreed(s, a) THEN [s EXCEPT !.uaf = TRUE]
    ELSE s

\* a store of v to address a
Wr(s, a, v) ==
    IF s.res # "ok" THEN s
    ELSE IF ~Mapped(s.m, a) THEN [s EXCEPT !.res = "trap"]
    ELSE [s EXCEPT !.m[a] = v, !.uaf = @ \/ InFreed(s, a)]

Hang(s) == IF s.res = "ok" THEN [s EXCEPT !.res = "hang"] ELSE s

----------------------------------------------------------------------------
(* list.h *)

LIST_FIRST(s, head) == Rd(s, head + LH_FIRST)
LIST_NEXT(s, elm)   == Rd(s, elm + LE_NEXT)

\* LIST_INSERT_AFTER without its if statement: the successor of listelm keeps
\* pointing back at listelm
LIST_INSERT_AFTER_KeepsBackPtr(s, listelm, elm) ==
    LET s1  == Ck(s, listelm + LE_NEXT)
        nxt == Rd(s, listelm + LE_NEXT)
        s2  == Wr(s1, elm + LE_NEXT, nxt)
        s4  == Wr(s2, listelm + LE_NEXT, elm)
    IN  Wr(s4, elm + LE_PREV, listelm + LE_NEXT)

LIST_INSERT_AFTER(s, listelm, elm) ==
    LET s1  == Ck(s, listelm + LE_NEXT)
        nxt == Rd(s, listelm + LE_NEXT)
        s2  == Wr(s1, elm + LE_NEXT, nxt)
        s3  == IF nxt # NULL
               THEN Wr(Ck(s2, listelm + LE_NEXT),
                       Rd(s2, listelm + LE_NEXT) + LE_PREV, elm + LE_NEXT)
               ELSE s2
        s4  == Wr(s3, listelm + LE_NEXT, elm)
    IN  Wr(s4, elm + LE_PREV, listelm + LE_NEXT)

\* LIST_INSERT_HEAD that ends elm's chain at elm: the former first element
\* is no longer reached
LIST_INSERT_HEAD_DropsRest(s, head, elm) ==
    LET s1 == Ck(s, head + LH_FIRST)
        s2 == Wr(s1, elm + LE_NEXT, NULL)
        s4 == Wr(s2, head + LH_FIRST, elm)
    IN  Wr(s4, elm + LE_PREV, head + LH_FIRST)

LIST_INSERT_HEAD(s, head, elm) ==
    LET s1    == Ck(s, head + LH_FIRST)
        first == Rd(s, head + LH_FIRST)
        s2    == Wr(s1, elm + LE_NEXT, first)
        s3    == IF first # NULL
                 THEN Wr(Ck(s2, head + LH_FIRST),
                         Rd(s2, head + LH_FIRST) + LE_PREV, elm + LE_NEXT)
                 ELSE s2
        s4    == Wr(s3, head + LH_FIRST, elm)
    IN  Wr(s4, elm + LE_PREV, head + LH_FIRST)

\* the while loop of LIST_INSERT_TAIL: the element whose le_next is NULL.
\* Memory does not change during the scan, so a scan that has made more
\* steps than there are elements is in a cycle and never ends.
RECURSIVE LastElm(_, _, _)
LastElm(s, curelm, fuel) ==
    IF s.res # "ok" THEN [s |-> s, curelm |-> curelm]
    ELSE IF ~Mapped(s.m, curelm + LE_NEXT) THEN [s |-> Ck(s, curelm + LE_NEXT), curelm |-> curelm]
    ELSE IF LIST_NEXT(s, curelm) = NULL THEN [s |-> s, curelm |-> curelm]
    ELSE IF fuel = 0 THEN [s |-> Hang(s), curelm |-> curelm]
    ELSE LastElm(s, LIST_NEXT(s, curelm), fuel - 1)

\* LIST_INSERT_TAIL without its while loop: elm goes after the first element
LIST_INSERT_TAIL_AfterFirst(s, head, elm) ==
    LET s1     == Ck(s, head + LH_FIRST)
        curelm == LIST_FIRST(s, head)
    IN  IF s1.res # "ok" THEN s1
        ELSE IF curelm = NULL THEN LIST_INSERT_HEAD(s1, head, elm)
        ELSE LIST_INSERT_AFTER(s1, curelm, elm)

LIST_INSERT_TAIL(s, head, elm) ==
    LET s1     == Ck(s, head + LH_FIRST)
        curelm == LIST_FIRST(s, head)
    IN  IF s1.res # "ok" THEN s1
        ELSE IF curelm = NULL THEN LIST_INSERT_HEAD(s1, head, elm)
        ELSE LET l == LastElm(s1, curelm, MaxBlocks + 1)
             IN  LIST_INSERT_AFTER(l.s, l.curelm, elm)

\* LIST_REMOVE without its second statement: the slot that points to elm is
\* not redirected to elm's successor
LIST_REMOVE_KeepsSlot(s, elm) ==
    LET s1  == Ck(s, elm + LE_NEXT)
        nxt == Rd(s, elm + LE_NEXT)
    IN  IF nxt # NULL
        THEN Wr(Ck(s1, elm + LE_PREV), nxt + LE_PREV, Rd(s1, elm + LE_PREV))
        ELSE s1

LIST_REMOVE(s, elm) ==
    LET s1  == Ck(s, elm + LE_NEXT)
        nxt == Rd(s, elm + LE_NEXT)
        s2  == IF nxt # NULL
               THEN Wr(Ck(s1, elm + LE_PREV), nxt + LE_PREV, Rd(s1, elm + LE_PREV))
               ELSE s1
        s3  == Ck(s2, elm + LE_PREV)
        prv == Rd(s2, elm + LE_PREV)
    IN  IF prv # NULL
        THEN Wr(Ck(s3, elm + LE_NEXT), prv, Rd(s3, elm + LE_NEXT))
        ELSE s3

\* the LIST_FOREACH loops of item.c, which stop at the first item with the id:
\* [s, item], item = NULL when the loop ran to its end
RECURSIVE FindItem(_, _, _, _)
FindItem(s, item, id, fuel) ==
    IF s.res # "ok" \/ item = NULL THEN [s |-> s, item |-> NULL]
    ELSE IF ~Mapped(s.m, item + ID) THEN [s |-> Ck(s, item + ID), item |-> NULL]
    ELSE IF Rd(s, item + ID) = id THEN [s |-> s, item |-> item]
    ELSE IF fuel = 0 THEN [s |-> Hang(s), item |-> NULL]
    ELSE FindItem(s, LIST_NEXT(s, item), id, fuel - 1)

\* a loop that looks at the first item only
LIST_FOREACH_find_FirstOnly(s, head, id) ==
    LET s1    == Ck(s, head + LH_FIRST)
        first == LIST_FIRST(s, head)
    IN  IF s1.res = "ok" /\ first # NULL /\ Rd(Ck(s1, first + ID), first + ID) = id
        THEN [s |-> s1, item |-> first]
        ELSE [s |-> s1, item |-> NULL]

LIST_FOREACH_find(s, head, id) ==
    LET s1 == Ck(s, head + LH_FIRST)
    IN  FindItem(s1, LIST_FIRST(s, head), id, MaxBlocks + 1)

----------------------------------------------------------------------------
(* malloc and free *)

Block(k) == ItemWords * k

\* malloc returns a block that was freed, or carves the next block from the heap
MallocChoices ==
    {b \in Blocks : b \notin allocated /\ b <= Block(brk)}
        \cup (IF brk < MaxBlocks THEN {Block(brk + 1)} ELSE {})

\* free(b) of an allocated block: the block's memory stays mapped, and the
\* allocator may keep its own data in the block's first words
Clobber(m, b) == [m EXCEPT ![b + ID] = Garbage, ![b + COUNT] = Garbage]

FreedContents(m, b) == {m, Clobber(m, b)}

\* the call passes item to free; free(NULL) does nothing
free(s, item) == IF item = NULL THEN s ELSE [s EXCEPT !.freed = @ \cup {item}]

----------------------------------------------------------------------------
(* The result of a call *)

StatusOf(s) == CASE s.res = "ok"   -> "running"
                 [] s.res = "trap" -> "crashed"
                 [] s.res = "hang" -> "hung"

NoCall == [op |-> "none", id |-> 0, arg |-> 0, returned |-> FALSE, ret |-> 0, str |-> "",
           uaf |-> FALSE]

\* the call op(id) ended in machine state s; ret is what it returns if it returns
Call(op, id, s, ret) ==
    [op |-> op, id |-> id, arg |-> 0,
     returned |-> (s.res = "ok"), ret |-> IF s.res = "ok" THEN ret ELSE 0, str |-> "",
     uaf |-> s.uaf]

Aborted(s) == [s EXCEPT !.res = "trap"]

----------------------------------------------------------------------------
(* item.c *)

Init ==
    /\ shopping_cart = NULL
    /\ mem \in {MemUnmapped, MemMapped}
    /\ allocated = {}
    /\ brk = 0
    /\ status = "running"
    /\ last = NoCall
    /\ nops = 0
    /\ calls = [i \in Ids |-> 0]
    /\ members = {}

\* int, two's complement of IntBits bits
IntMax == 2^(IntBits - 1) - 1
IntMin == -(2^(IntBits - 1))
IntWrap(n) == ((n - IntMin) % 2^IntBits) + IntMin

\* add_to_cart, the item is in the list: item->count += 1. The addition of
\* a build that does not trap signed overflow wraps around.
AddFound(s, item) ==
    Wr(Ck(s, item + COUNT), item + COUNT, IntWrap(Rd(s, item + COUNT) + 1))

\* a new item that starts with no count
AddNew_CountZero(s, item, id) ==
    LIST_INSERT_TAIL(Wr(Wr(s, item + ID, id), item + COUNT, 0), shopping_cart, item)

\* add_to_cart, the loop ran to its end: the new item in the block malloc returned
AddNew(s, item, id) ==
    LIST_INSERT_TAIL(Wr(Wr(s, item + ID, id), item + COUNT, 1), shopping_cart, item)

\* the call ended in machine state s without changing the heap's bookkeeping
Ends(op, id, s, ret) ==
    /\ mem' = s.m
    /\ status' = StatusOf(s)
    /\ last' = Call(op, id, s, ret)

add_to_cart(id) ==
    /\ status = "running"
    /\ nops < MaxOps
    /\ LET f == LIST_FOREACH_find(Start(mem), shopping_cart, id)
       IN  \/ /\ f.s.res # "ok"
              /\ Ends("add", id, f.s, 0)
              /\ UNCHANGED <<allocated, brk>>
           \/ /\ f.s.res = "ok"
              /\ f.item # NULL
              /\ Ends("add", id, AddFound(f.s, f.item), 0)
              /\ UNCHANGED <<allocated, brk>>
           \* signed overflow in a build that traps it (-ftrapv): abort
           \/ /\ f.s.res = "ok"
              /\ f.item # NULL
              /\ Rd(f.s, f.item + COUNT) = IntMax
              /\ Ends("add", id, Aborted(Ck(f.s, f.item + COUNT)), 0)
              /\ UNCHANGED <<allocated, brk>>
           \/ /\ f.s.res = "ok"
              /\ f.item = NULL
              /\ \E b \in MallocChoices :
                    /\ Ends("add", id, AddNew(f.s, b, id), 0)
                    /\ allocated' = allocated \cup {b}
                    /\ brk' = IF b = Block(brk + 1) THEN brk + 1 ELSE brk
    /\ nops' = nops + 1
    /\ calls' = [calls EXCEPT ![id] = @ + 1]
    /\ UNCHANGED <<shopping_cart, members>>

\* remove_from_cart, the item is in the list
RemoveFound(s, item) == LIST_REMOVE(Ck(s, item + COUNT), item)

\* a found path without its return: LIST_FOREACH steps on, (var) = (var)->next.le_next
RemoveReturn_LoopGoesOn(s, item) == Ck(s, item + LE_NEXT)

\* remove_from_cart, after free(item): return count, a local; the loop is left
RemoveReturn(s, item) == s

\* remove_from_cart, the loop ran to its end ("this will core"): item is NULL
RemoveMissing(s, item) == free(LIST_REMOVE(s, item), item)

remove_from_cart(id) ==
    /\ status = "running"
    /\ nops < MaxOps
    /\ LET f == LIST_FOREACH_find(Start(mem), shopping_cart, id)
       IN  \/ /\ f.s.res # "ok"
              /\ Ends("remove", id, f.s, 0)
              /\ UNCHANGED allocated
           \/ /\ f.s.res = "ok"
              /\ f.item # NULL
              /\ LET count == Rd(f.s, f.item + COUNT)
                     s     == RemoveFound(f.s, f.item)
                     r     == RemoveReturn(free(s, f.item), f.item)
                 IN  IF s.res # "ok"
                     THEN /\ Ends("remove", id, s, 0)
                          /\ UNCHANGED allocated
                     ELSE IF f.item \in allocated
                     THEN \* free(item)
                          /\ mem' \in FreedContents(r.m, f.item)
                          /\ allocated' = allocated \ {f.item}
                          /\ status' = StatusOf(r)
                          /\ last' = Call("remove", id, r, count)
                     ELSE \* free(item) of a block that is not allocated: the
                          \* allocator aborts the process, or does not notice
                          /\ UNCHANGED allocated
                          /\ \/ Ends("remove", id, Aborted(s), 0)
                             \/ Ends("remove", id, r, count)
           \/ /\ f.s.res = "ok"
              /\ f.item = NULL
              \* free(NULL) does nothing
              /\ Ends("remove", id, RemoveMissing(f.s, f.item), 0)
              /\ UNCHANGED allocated
    /\ nops' = nops + 1
    /\ calls' = [calls EXCEPT ![id] = 0]
    /\ UNCHANGED <<shopping_cart, brk, members>>

Next ==
    \/ \E id \in Ids : add_to_cart(id)
    \/ \E id \in Ids : remove_from_cart(id)

Spec == Init /\ [][Next]_vars

----------------------------------------------------------------------------
(* get_cost and get_name, called between the calls of the cart *)

\* the ids looked up: the ids of the cart, and ids of no product
LookupIds == 0..(MaxId + 1) \cup {99}

\* a table in which the second product costs what the first costs
get_cost_SamePrice(id) ==
    IF id = 1 THEN 10
    ELSE IF id = 2 THEN 10
    ELSE 0

get_cost(id) ==
    IF id = 1 THEN 10
    ELSE IF id = 2 THEN 12
    ELSE 0

get_name(id) ==
    IF id = 1 THEN "apple"
    ELSE IF id = 2 THEN "banana"
    ELSE "bad id"

LookupCall(op, id, ret, str) ==
    [op |-> op, id |-> id, arg |-> 0, returned |-> TRUE, ret |-> ret, str |-> str,
     uaf |-> FALSE]

cost(id) ==
    /\ status = "running"
    /\ last' = LookupCall("cost", id, get_cost(id), "")
    /\ UNCHANGED <<shopping_cart, mem, allocated, brk, status, nops, calls, members>>

name(id) ==
    /\ status = "running"
    /\ last' = LookupCall("name", id, 0, get_name(id))
    /\ UNCHANGED <<shopping_cart, mem, allocated, brk, status, nops, calls, members>>

CatalogNext ==
    \/ \E id \in Ids : nops < MaxCatalogOps /\ add_to_cart(id)
    \/ \E id \in Ids : nops < MaxCatalogOps /\ remove_from_cart(id)
    \/ \E id \in LookupIds : cost(id)
    \/ \E id \in LookupIds : name(id)

CatalogSpec == Init /\ [][CatalogNext]_vars

----------------------------------------------------------------------------
(* A client of list.h with a list head of its own at HeadAddr; its elements *)
(* are the blocks of the heap.  The client keeps to what the macros take   *)
(* for granted: an element is inserted when it is not in the list, after   *)
(* an element that is, and removed when it is in the list.                 *)

ListCall(op, elm, listelm) ==
    [op |-> op, id |-> elm, arg |-> listelm, returned |-> TRUE, ret |-> 0, str |-> "",
     uaf |-> FALSE]

ListEnds(op, elm, listelm, s) ==
    /\ mem' = s.m
    /\ status' = StatusOf(s)
    /\ last' = ListCall(op, elm, listelm)
    /\ UNCHANGED <<shopping_cart, allocated, brk, nops, calls>>

insert_head(elm) ==
    /\ status = "running"
    /\ elm \notin members
    /\ ListEnds("insert_head", elm, NULL, LIST_INSERT_HEAD(Start(mem), HeadAddr, elm))
    /\ members' = members \cup {elm}

insert_after(listelm, elm) ==
    /\ status = "running"
    /\ listelm \in members
    /\ elm \notin members
    /\ ListEnds("insert_after", elm, listelm, LIST_INSERT_AFTER(Start(mem), listelm, elm))
    /\ members' = members \cup {elm}

insert_tail(elm) ==
    /\ status = "running"
    /\ elm \notin members
    /\ ListEnds("insert_tail", elm, NULL, LIST_INSERT_TAIL(Start(mem), HeadAddr, elm))
    /\ members' = members \cup {elm}

remove(elm) ==
    /\ status = "running"
    /\ elm \in members
    /\ ListEnds("remove", elm, NULL, LIST_REMOVE(Start(mem), elm))
    /\ members' = members \ {elm}

ListNext ==
    \/ \E elm \in Blocks : insert_head(elm)
    \/ \E listelm \in Blocks, elm \in Blocks : insert_after(listelm, elm)
    \/ \E elm \in Blocks : insert_tail(elm)
    \/ \E elm \in Blocks : remove(elm)

ListSpec == Init /\ [][ListNext]_vars

\* LIST_REMOVE of an element that is not on the list: one that was never
\* inserted (its links are zero) or one that was removed before (its links
\* are what they were then); the macro has no check and no result
remove_nonmember(elm) ==
    /\ status = "running"
    /\ elm \notin members
    /\ ListEnds("remove", elm, NULL, LIST_REMOVE(Start(mem), elm))
    /\ UNCHANGED members

MisuseNext ==
    \/ ListNext
    \/ \E elm \in Blocks : remove_nonmember(elm)

MisuseSpec == Init /\ [][MisuseNext]_vars

----------------------------------------------------------------------------
(* What iterating a list yields: the elements met by following le_next from *)
(* the head, up to NULL (closed) or up to an element met before.           *)

RECURSIVE Walk(_, _, _)
Walk(m, elm, nodes) ==
    IF elm = NULL THEN [nodes |-> nodes, closed |-> TRUE]
    ELSE IF (\E i \in DOMAIN nodes : nodes[i] = elm) \/ ~Mapped(m, elm + LE_NEXT)
    THEN [nodes |-> nodes, closed |-> FALSE]
    ELSE Walk(m, m[elm + LE_NEXT], Append(nodes, elm))

Chain(m, head) ==
    IF Mapped(m, head + LH_FIRST)
    THEN Walk(m, m[head + LH_FIRST], <<>>)
    ELSE [nodes |-> <<>>, closed |-> TRUE]

Range(f) == {f[i] : i \in DOMAIN f}

\* the cart as a caller sees it: the (id, count) pairs in list order
ItemsOf(m) ==
    LET c == Chain(m, shopping_cart).nodes
    IN  [i \in DOMAIN c |-> [id |-> m[c[i] + ID], count |-> m[c[i] + COUNT]]]

Cart == ItemsOf(mem)

IdsOf(items) == {items[i].id : i \in DOMAIN items}

----------------------------------------------------------------------------
(* Claims about the cart, checked under Spec *)

\* the step is the call op(id)
IsCall(op, id) == nops' = nops + 1 /\ last'.op = op /\ last'.id = id

\* items with the item that has the id taken out
Without(items, id) == SelectSeq(items, LAMBDA it : it.id # id)

CountOf(items, id) ==
    IF id \in IdsOf(items)
    THEN items[CHOOSE i \in DOMAIN items :
                   items[i].id = id /\ \A j \in DOMAIN items : items[j].id = id => i <= j].count
    ELSE 0

\* C1: remove(id) of an id that is not in a non-empty cart returns, with a
\* result that is not the quantity 0, and leaves memory, and with it the
\* cart's items, counts, order and links, as they were.
C1_RemoveMissingNotFound ==
    [][\A id \in Ids :
         (status = "running" /\ Cart # <<>> /\ id \notin IdsOf(Cart) /\ IsCall("remove", id))
            => (status' = "running" /\ last'.returned /\ last'.ret # 0
                /\ mem' = mem /\ allocated' = allocated)]_vars

\* C2: remove(x) on an empty cart does not crash, frees nothing, changes no
\* link and leaves the cart empty.
C2_RemoveOnEmptyNoCrash ==
    [][\A id \in Ids :
         (status = "running" /\ Cart = <<>> /\ IsCall("remove", id))
            => (status' = "running" /\ last'.returned
                /\ mem' = mem /\ allocated' = allocated /\ Cart' = <<>>)]_vars

\* C3: the first add(id) of a process succeeds: the list head exists, and
\* after the call the cart is exactly the one item {id, count: 1}.
C3_FirstAddSucceeds ==
    (nops = 1 /\ last.op = "add")
        => (status = "running" /\ last.returned /\ shopping_cart # NULL
            /\ Cart = <<[id |-> last.id, count |-> 1]>>)

\* C4: after n >= 1 calls of add(id) with no remove(id) among them, the cart
\* holds exactly one item for id, and its count is n.
C4_CountIsNumberOfAdds ==
    \A id \in Ids :
        calls[id] >= 1
            => (status = "running"
                /\ Cardinality({i \in DOMAIN Cart : Cart[i].id = id}) = 1
                /\ CountOf(Cart, id) = calls[id])

\* C5: remove(id) on a cart that holds id returns the item's count, which is
\* the number of add(id) calls since id was last absent, and afterwards id
\* is absent from the cart.
C5_RemoveReturnsCount ==
    [][\A id \in Ids :
         (status = "running" /\ id \in IdsOf(Cart) /\ IsCall("remove", id))
            => (status' = "running" /\ last'.returned
                /\ last'.ret = CountOf(Cart, id) /\ last'.ret = calls[id]
                /\ id \notin IdsOf(Cart'))]_vars

\* C6: a successful remove(id) takes out the item with that id and nothing
\* else: iterating afterwards yields the other items, each once, in the
\* same order and with the same counts.
C6_RemoveTakesOutOnlyThatItem ==
    [][\A id \in Ids :
         (status = "running" /\ id \in IdsOf(Cart) /\ IsCall("remove", id))
            => (status' = "running" /\ Cart' = Without(Cart, id))]_vars

\* C7: for every id, at most one item of the cart has that id.
C7_OneItemPerId ==
    LET items == Cart
    IN  \A id \in Ids : Cardinality({i \in DOMAIN items : items[i].id = id}) <= 1

\* an add of an id that was in the cart has left a cart of several items
C7_Witness ==
    /\ status = "running"
    /\ last.op = "add"
    /\ calls[last.id] >= 2
    /\ Len(Cart) >= 2
    /\ CountOf(Cart, last.id) >= 2

\* C8: add(id) of an id that is not in the cart puts the new item
\* {id, count: 1} after every item already there.
C8_AddAppends ==
    [][\A id \in Ids :
         (status = "running" /\ id \notin IdsOf(Cart) /\ IsCall("add", id))
            => (status' = "running"
                /\ Cart' = Append(Cart, [id |-> id, count |-> 1]))]_vars

\* the blocks that held an item which remove_from_cart has freed
Destroyed == {b \in Blocks : b <= Block(brk) /\ b \notin allocated}

\* C10: no handle to a destroyed item remains: not the head's first pointer,
\* not the next pointer of a remaining item, not the prev pointer of a
\* remaining item (which would address a field inside the destroyed item).
C10_NoDanglingHandle ==
    status = "running" =>
        \A b \in Destroyed :
            /\ Mapped(mem, shopping_cart + LH_FIRST) => mem[shopping_cart + LH_FIRST] # b
            /\ \A a \in allocated :
                 /\ mem[a + LE_NEXT] # b
                 /\ mem[a + LE_PREV] \notin {b + o : o \in 0..(ItemWords - 1)}

----------------------------------------------------------------------------
(* Claims about the list, checked under ListSpec *)

\* C9: every member is met exactly once by following le_next from the head:
\* the chain ends in NULL, holds no element twice, and holds the members.
C9_MembersReachableOnce ==
    LET c == Chain(mem, HeadAddr)
    IN  /\ c.closed
        /\ Range(c.nodes) = members
        /\ Len(c.nodes) = Cardinality(members)

\* an element was removed from a list that keeps several members
C9_Witness ==
    /\ last.op = "remove"
    /\ Cardinality(members) >= 2
    /\ Len(Chain(mem, HeadAddr).nodes) >= 2

\* C15: an add of an id whose item has the largest count an int holds
\* leaves the count at that value (it saturates, or the add is refused):
\* the count never wraps around to a negative value.
C15_CountNeverWraps ==
    [][\A id \in Ids :
         (IsCall("add", id) /\ id \in IdsOf(Cart) /\ CountOf(Cart, id) = IntMax)
            => /\ status' = "running"
               /\ id \in IdsOf(Cart')
               /\ CountOf(Cart', id) = IntMax]_vars

\* C16: a remove that found its item leaves the loop right after it has
\* unlinked and freed the item: the call makes no load from and no store to
\* the freed item after free(item).
C16_NoUseAfterFreeInRemove ==
    last.op = "remove" => ~last.uaf

\* a remove found its item, freed it and returned its count
C16_Witness ==
    /\ last.op = "remove"
    /\ last.returned
    /\ last.ret >= 2
    /\ Destroyed # {}

\* C17: every add and every remove terminates in every reachable state of
\* the cart: no scan of the list runs on without end.
C17_CallsTerminate ==
    status # "hung"

\* C18: an add of an id that is in the cart adds one to the count of that
\* id's item and changes nothing else: no other word of memory (ids, other
\* counts, next and prev links, the head), and no item is allocated.
C18_AddFoundChangesOnlyCount ==
    [][\A id \in Ids :
         (IsCall("add", id) /\ id \in IdsOf(Cart))
            => \E item \in Range(Chain(mem, shopping_cart).nodes) :
                  /\ mem[item + ID] = id
                  /\ mem' = [mem EXCEPT ![item + COUNT] = @ + 1]
                  /\ allocated' = allocated
                  /\ status' = "running"]_vars

\* the ids of the products, on the items of the cart
Positive(items) == \A i \in DOMAIN items : items[i].id \in Ids => items[i].count >= 1

\* C20: as long as no count has overflowed, every item of the cart has a
\* count of at least 1, and a remove that finds its item returns at least 1.
C20_CountsArePositive ==
    [][LET before == ItemsOf(mem)
       IN  Positive(before) =>
             /\ (\A id \in Ids : ~(IsCall("add", id) /\ CountOf(before, id) = IntMax))
                   => Positive(ItemsOf(mem'))
             /\ \A id \in Ids :
                   (IsCall("remove", id) /\ id \in IdsOf(before) /\ last'.returned)
                      => last'.ret >= 1]_vars

\* a remove returned the count of an item that had been added more than once
C20_Witness ==
    /\ Positive(Cart)
    /\ Cart # <<>>
    /\ last.op = "remove"
    /\ last.returned
    /\ last.ret >= 2
    /\ \A i \in DOMAIN Cart : Cart[i].id \in Ids

----------------------------------------------------------------------------
(* Claims about the lookups, checked under CatalogSpec *)

\* C11: cost(1) = 10, cost(2) = 12 and cost(id) = 0 for every other id;
\* name(1) = "apple", name(2) = "banana" and name(id) = "bad id" for every
\* other id; the lookups return in every state of the cart and leave the
\* cart, and all of memory, as it was.
C11_LookupsArePure ==
    [][\A id \in LookupIds :
         /\ (last'.op = "cost" /\ last'.id = id)
               => /\ last'.returned
                  /\ id = 1 => last'.ret = 10
                  /\ id = 2 => last'.ret = 12
                  /\ id \notin {1, 2} => last'.ret = 0
                  /\ mem' = mem /\ allocated' = allocated /\ status' = status
         /\ (last'.op = "name" /\ last'.id = id)
               => /\ last'.returned
                  /\ id = 1 => last'.str = "apple"
                  /\ id = 2 => last'.str = "banana"
                  /\ id \notin {1, 2} => last'.str = "bad id"
                  /\ mem' = mem /\ allocated' = allocated /\ status' = status]_vars

\* the cost of the second product was looked up while the cart held items
C11_Witness ==
    /\ last.op = "cost"
    /\ last.id = 2
    /\ last.ret = 12
    /\ Len(Cart) >= 2

----------------------------------------------------------------------------
(* Claims about list.h, checked under ListSpec and MisuseSpec *)

\* the links a container owns: its head and the links of its members
Links(m, elms) ==
    [a \in {HeadAddr + LH_FIRST} \cup {e + LE_NEXT : e \in elms}
                                 \cup {e + LE_PREV : e \in elms} |-> m[a]]

\* C12: a remove of an element that is not a member of the container (never
\* inserted, or removed before) changes no link of the container and leaves
\* the sequence of the members as it was.
C12_RemoveNonMemberChangesNothing ==
    [][\A elm \in Blocks :
         (elm \notin members /\ last'.op = "remove" /\ last'.id = elm)
            => /\ Links(mem', members) = Links(mem, members)
               /\ Chain(mem', HeadAddr) = Chain(mem, HeadAddr)]_vars

\* C13: insert_tail of a non-member gives the list that insert_head gives
\* when the list is empty and that insert_after its last element gives
\* otherwise; the element becomes the last one behind the members in their
\* order, so repeated insert_tails are iterated in insertion order.
C13_InsertTailAppends ==
    [][\A elm \in Blocks :
         (elm \notin members /\ last'.op = "insert_tail" /\ last'.id = elm)
            => LET c == Chain(mem, HeadAddr).nodes
               IN  /\ mem' = IF c = <<>>
                             THEN LIST_INSERT_HEAD(Start(mem), HeadAddr, elm).m
                             ELSE LIST_INSERT_AFTER(Start(mem), c[Len(c)], elm).m
                   /\ Chain(mem', HeadAddr) = [nodes |-> Append(c, elm), closed |-> TRUE]]_vars

\* MaxBlocks elements are on the list in address order and the last call was
\* an insert_tail behind at least two members
C13_Witness ==
    /\ last.op = "insert_tail"
    /\ Chain(mem, HeadAddr).nodes = [i \in 1..MaxBlocks |-> Block(i)]
    /\ last.id = Block(MaxBlocks)

\* C14: insert_head of a non-member makes it the first element and the
\* former first element its successor; the rest of the sequence is unchanged.
C14_InsertHeadPrepends ==
    [][\A elm \in Blocks :
         (elm \notin members /\ last'.op = "insert_head" /\ last'.id = elm)
            => Chain(mem', HeadAddr) =
                  [nodes |-> <<elm>> \o Chain(mem, HeadAddr).nodes, closed |-> TRUE]]_vars

\* an element was inserted at the head of a list that had members
C14_Witness ==
    LET c == Chain(mem, HeadAddr).nodes
    IN  /\ last.op = "insert_head"
        /\ Len(c) >= 2
        /\ c[1] = last.id

\* C19: the le_prev of every member points at the slot that points at the
\* member: the head's first slot for the first member, the le_next field of
\* its predecessor for every other member.
C19_BackPointers ==
    LET c == Chain(mem, HeadAddr).nodes
    IN  /\ members \subseteq Range(c)
        /\ \A i \in DOMAIN c :
          /\ c[i] \in members
          /\ mem[c[i] + LE_PREV] = IF i = 1 THEN HeadAddr + LH_FIRST
                                   ELSE c[i - 1] + LE_NEXT
          /\ mem[mem[c[i] + LE_PREV]] = c[i]

\* an element was inserted between two members
C19_Witness ==
    LET c == Chain(mem, HeadAddr).nodes
    IN  /\ last.op = "insert_after"
        /\ \E i \in DOMAIN c : i > 1 /\ i < Len(c) /\ c[i] = last.id /\ c[i - 1] = last.arg

====
